---------------------------- MODULE Spec2Model ----------------------------
(***************************************************************************)
(* aws-secrets-github-sync: the retrying command execution of              *)
(* src/clients.ts (executeWithRetry, assertSuccess, DEFAULT_RETRY_OPTIONS).*)
(*                                                                         *)
(* One call of executeWithRetry is followed from entry to the point where  *)
(* its promise settles.  Time is the value of Date.now() in milliseconds;  *)
(* it advances while spawnSync blocks and while the backoff timer runs.    *)
(* The command is a scripted stand-in for spawnSync, as in the tests: it   *)
(* fails on its first failsPlanned invocations (on every one when          *)
(* failsPlanned = Forever) and succeeds afterwards.                        *)
(***************************************************************************)
EXTENDS Integers, Sequences, FiniteSets, TLC

(***************************************************************************)
(* Bounds of the model.                                                    *)
(***************************************************************************)
MaxBackoffOption == 2   \* initialBackoff, maxBackoff range over 1..MaxBackoffOption
MaxFactorOption == 2    \* backoffFactor ranges over 1..MaxFactorOption
MaxDeadlineOption == 4  \* deadline ranges over 0..MaxDeadlineOption and undefined
MaxRetriesOption == 2   \* maxRetries ranges over 0..MaxRetriesOption
MaxFails == 3           \* scripted failures before the first success
MaxDuration == 1        \* milliseconds one spawnSync call may block
MaxLag == 1             \* milliseconds a timer may fire late
MaxStart == 1           \* Date.now() when executeWithRetry is entered: 0 or MaxStart

(***************************************************************************)
(* JavaScript values.  null and undefined are both modelled by Null; a     *)
(* signal is modelled by its number (SIGTERM is 15).                       *)
(***************************************************************************)
Null == -1
Forever == -2
SIGTERM == 15

ThrottleText == "API rate limit exceeded"
OtherText == "Some other error"

(***************************************************************************)
(* DEFAULT_RETRY_OPTIONS                                                   *)
(***************************************************************************)
DefaultMaxRetries == 5
DefaultInitialBackoff == 60000
DefaultMaxBackoff == 6000000
DefaultBackoffFactor == 3

DEFAULT_RETRY_OPTIONS_Factor2 ==
  [ maxRetries |-> DefaultMaxRetries,
    initialBackoff |-> DefaultInitialBackoff,
    maxBackoff |-> DefaultMaxBackoff,
    backoffFactor |-> 2 ]

DEFAULT_RETRY_OPTIONS ==
  [ maxRetries |-> DefaultMaxRetries,
    initialBackoff |-> DefaultInitialBackoff,
    maxBackoff |-> DefaultMaxBackoff,
    backoffFactor |-> DefaultBackoffFactor ]

(***************************************************************************)
(* The values spawnSync can return (SpawnSyncReturns): error is TRUE when  *)
(* the child could not be started, signal is the terminating signal,       *)
(* status the exit code.                                                   *)
(***************************************************************************)
successExit ==
  [ error |-> FALSE, signal |-> Null, status |-> 0, stderr |-> "", stdout |-> "Success" ]

noisySuccessExit ==
  [ error |-> FALSE, signal |-> Null, status |-> 0, stderr |-> "warning", stdout |-> "Success" ]

errorExit(message) ==
  [ error |-> FALSE, signal |-> Null, status |-> 1, stderr |-> message, stdout |-> "" ]

spawnError ==
  [ error |-> TRUE, signal |-> Null, status |-> Null, stderr |-> "", stdout |-> "" ]

signalExit ==
  [ error |-> FALSE, signal |-> SIGTERM, status |-> Null, stderr |-> "", stdout |-> "" ]

NoResult ==
  [ error |-> FALSE, signal |-> Null, status |-> Null, stderr |-> "", stdout |-> "" ]

Successes == { successExit, noisySuccessExit }
Failures == { errorExit(ThrottleText), errorExit(OtherText), spawnError, signalExit }

(***************************************************************************)
(* Errors.  An Error is its message: a fixed text and the value            *)
(* interpolated into it.                                                   *)
(***************************************************************************)
NoError == [ text |-> "", arg |-> Null ]
SpawnFailure == [ text |-> "spawnSync gh ENOENT", arg |-> Null ]

(***************************************************************************)
(* assertSuccess with the exit status tested by >= 0 instead of > 0.       *)
(***************************************************************************)
assertSuccess_ZeroFails(x) ==
  IF x.error THEN [ threw |-> TRUE, error |-> SpawnFailure, value |-> NoResult ]
  ELSE IF x.signal # Null
    THEN [ threw |-> TRUE,
           error |-> [ text |-> "Process exited with signal", arg |-> x.signal ],
           value |-> NoResult ]
  ELSE IF x.status # Null /\ x.status >= 0
    THEN [ threw |-> TRUE,
           error |-> [ text |-> "Process exited with code", arg |-> x.status ],
           value |-> NoResult ]
  ELSE [ threw |-> FALSE, error |-> NoError, value |-> x ]

(***************************************************************************)
(* assertSuccess with the exit status tested by > 1 instead of > 0.        *)
(***************************************************************************)
assertSuccess_ExitOnePasses(x) ==
  IF x.error THEN [ threw |-> TRUE, error |-> SpawnFailure, value |-> NoResult ]
  ELSE IF x.signal # Null
    THEN [ threw |-> TRUE,
           error |-> [ text |-> "Process exited with signal", arg |-> x.signal ],
           value |-> NoResult ]
  ELSE IF x.status # Null /\ x.status > 1
    THEN [ threw |-> TRUE,
           error |-> [ text |-> "Process exited with code", arg |-> x.status ],
           value |-> NoResult ]
  ELSE [ threw |-> FALSE, error |-> NoError, value |-> x ]

(***************************************************************************)
(* assertSuccess treating any output on stderr as a failure.               *)
(***************************************************************************)
assertSuccess_StderrFails(x) ==
  IF x.error THEN [ threw |-> TRUE, error |-> SpawnFailure, value |-> NoResult ]
  ELSE IF x.signal # Null
    THEN [ threw |-> TRUE,
           error |-> [ text |-> "Process exited with signal", arg |-> x.signal ],
           value |-> NoResult ]
  ELSE IF (x.status # Null /\ x.status > 0) \/ x.stderr # ""
    THEN [ threw |-> TRUE,
           error |-> [ text |-> "Process exited with code", arg |-> x.status ],
           value |-> NoResult ]
  ELSE [ threw |-> FALSE, error |-> NoError, value |-> x ]

(***************************************************************************)
(* assertSuccess(x): throws for a spawn error, a signal or a positive exit *)
(* status; returns x otherwise.                                            *)
(***************************************************************************)
assertSuccess(x) ==
  IF x.error THEN [ threw |-> TRUE, error |-> SpawnFailure, value |-> NoResult ]
  ELSE IF x.signal # Null
    THEN [ threw |-> TRUE,
           error |-> [ text |-> "Process exited with signal", arg |-> x.signal ],
           value |-> NoResult ]
  ELSE IF x.status # Null /\ x.status > 0
    THEN [ threw |-> TRUE,
           error |-> [ text |-> "Process exited with code", arg |-> x.status ],
           value |-> NoResult ]
  ELSE [ threw |-> FALSE, error |-> NoError, value |-> x ]

(***************************************************************************)
(* a ?? b                                                                  *)
(***************************************************************************)
Coalesce(a, b) == IF a = Null THEN b ELSE a

(***************************************************************************)
(* retryOpts of executeWithRetry: the caller's options over the defaults;  *)
(* deadline has no default.                                                *)
(***************************************************************************)
RetryOpts(o) ==
  [ maxRetries |-> Coalesce(o.maxRetries, DEFAULT_RETRY_OPTIONS.maxRetries),
    initialBackoff |-> Coalesce(o.initialBackoff, DEFAULT_RETRY_OPTIONS.initialBackoff),
    maxBackoff |-> Coalesce(o.maxBackoff, DEFAULT_RETRY_OPTIONS.maxBackoff),
    backoffFactor |-> Coalesce(o.backoffFactor, DEFAULT_RETRY_OPTIONS.backoffFactor),
    deadline |-> o.deadline ]

(***************************************************************************)
(* Truthiness of retryOpts.deadline: undefined and 0 are falsy.            *)
(***************************************************************************)
Truthy(n) == n # Null /\ n # 0

RECURSIVE Pow(_, _)
Pow(b, e) == IF e <= 0 THEN 1 ELSE b * Pow(b, e - 1)

Min(a, b) == IF a <= b THEN a ELSE b

(***************************************************************************)
(* The catch block keeping the error of the first failure.                 *)
(***************************************************************************)
CaughtError_KeepsFirst(previous, error) ==
  IF previous = NoError THEN error ELSE previous

(***************************************************************************)
(* lastError = error: the catch block records the error just caught, which *)
(* is the one it throws when it gives up.                                  *)
(***************************************************************************)
CaughtError(previous, error) == error

(***************************************************************************)
(* The deadline check with > instead of >=.                                *)
(***************************************************************************)
DeadlineReached_Strict(opts, elapsed) ==
  Truthy(opts.deadline) /\ elapsed > opts.deadline

(***************************************************************************)
(* The deadline check with the deadline counted from the first retry       *)
(* instead of from the first attempt.                                      *)
(***************************************************************************)
DeadlineReached_FromFirstRetry(opts, elapsed) ==
  Truthy(opts.deadline) /\ elapsed - opts.initialBackoff >= opts.deadline

(***************************************************************************)
(* The deadline check of the catch block (elapsed is Date.now() -          *)
(* startTime).                                                             *)
(***************************************************************************)
DeadlineReached(opts, elapsed) ==
  Truthy(opts.deadline) /\ elapsed >= opts.deadline

(***************************************************************************)
(* The retry-count check with >= instead of >.                             *)
(***************************************************************************)
RetriesExhausted_AtLimit(opts, n) ==
  ~Truthy(opts.deadline) /\ n >= opts.maxRetries

(***************************************************************************)
(* The retry-count check applied whether or not a deadline is set.         *)
(***************************************************************************)
RetriesExhausted_DespiteDeadline(opts, n) ==
  n > opts.maxRetries

(***************************************************************************)
(* The retry-count check of the catch block.                               *)
(***************************************************************************)
RetriesExhausted(opts, n) ==
  ~Truthy(opts.deadline) /\ n > opts.maxRetries

(***************************************************************************)
(* backoffTime with the exponent off by one.                               *)
(***************************************************************************)
BackoffTime_ExponentOffByOne(opts, n) ==
  Min(opts.initialBackoff * Pow(opts.backoffFactor, n), opts.maxBackoff)

(***************************************************************************)
(* backoffTime after the n-th failure.                                     *)
(***************************************************************************)
BackoffTime(opts, n) ==
  Min(opts.initialBackoff * Pow(opts.backoffFactor, n - 1), opts.maxBackoff)

(***************************************************************************)
(* A delay below the backoff: half of it.                                  *)
(***************************************************************************)
TimerDelay_Halved(b) == b \div 2

(***************************************************************************)
(* The delay handed to setTimeout for a backoff of b milliseconds.         *)
(***************************************************************************)
TimerDelay(b) == b

(***************************************************************************)
(* The functions of DEFAULTS that run gh; NoOp is a direct call of         *)
(* executeWithRetry with a command of the caller's.                        *)
(***************************************************************************)
NoOp == "executeWithRetry"
ClientOps == { "getRepositoryName", "storeSecret", "listSecrets", "removeSecret" }

NoInput == "undefined"
SecretValue == "my-npm-token"

RepoJson == "{nameWithOwner:my-owner/my-repo}"
RepoName == "my-owner/my-repo"
SecretListing == "NPM_TOKEN Updated 2021\nTWINE_USERNAME Updated 2021"

(***************************************************************************)
(* The options each function gives spawnSync, with stdin ignored even when *)
(* an input is given.                                                      *)
(***************************************************************************)
SpawnOptions_StdinIgnored(o) ==
  CASE o = "getRepositoryName" -> [ input |-> NoInput, stdio |-> << "ignore", "pipe", "inherit" >> ]
    [] o = "storeSecret" -> [ input |-> SecretValue, stdio |-> << "ignore", "inherit", "inherit" >> ]
    [] o = "listSecrets" -> [ input |-> NoInput, stdio |-> << "ignore", "pipe", "inherit" >> ]
    [] o = "removeSecret" -> [ input |-> NoInput, stdio |-> << "ignore", "inherit", "inherit" >> ]
    [] OTHER -> [ input |-> NoInput, stdio |-> << "pipe", "pipe", "pipe" >> ]

(***************************************************************************)
(* The options each function gives spawnSync: the input and the stdio of   *)
(* stdin, stdout and stderr.  A command of the caller's own (the mocks of  *)
(* the tests) hands back whatever it was scripted to.                      *)
(***************************************************************************)
SpawnOptions(o) ==
  CASE o = "getRepositoryName" -> [ input |-> NoInput, stdio |-> << "ignore", "pipe", "inherit" >> ]
    [] o = "storeSecret" -> [ input |-> SecretValue, stdio |-> << "pipe", "inherit", "inherit" >> ]
    [] o = "listSecrets" -> [ input |-> NoInput, stdio |-> << "ignore", "pipe", "inherit" >> ]
    [] o = "removeSecret" -> [ input |-> NoInput, stdio |-> << "ignore", "inherit", "inherit" >> ]
    [] OTHER -> [ input |-> NoInput, stdio |-> << "pipe", "pipe", "pipe" >> ]

(***************************************************************************)
(* What spawnSync hands back of a child's result: stdout and stderr are    *)
(* captured only when piped (they are null otherwise).                     *)
(***************************************************************************)
Captured(spawn, x) ==
  [ x EXCEPT !.stdout = IF spawn.stdio[2] = "pipe" THEN @ ELSE "",
             !.stderr = IF spawn.stdio[3] = "pipe" THEN @ ELSE "" ]

(***************************************************************************)
(* What gh prints on success for each function.                            *)
(***************************************************************************)
SuccessOutputs(o) ==
  CASE o = "getRepositoryName" -> { RepoJson, "not json" }
    [] o = "listSecrets" -> { "", SecretListing }
    [] OTHER -> { "Success" }

(***************************************************************************)
(* JSON.parse(output).nameWithOwner; "SyntaxError" when it is no JSON.     *)
(***************************************************************************)
ParseRepository(output) == IF output = RepoJson THEN RepoName ELSE "SyntaxError"

(***************************************************************************)
(* stdout.trim(), split into lines, the first column of each.              *)
(***************************************************************************)
ParseListing(output) ==
  IF output = "" THEN << >>
  ELSE IF output = SecretListing THEN << "NPM_TOKEN", "TWINE_USERNAME" >>
  ELSE << output >>

Pending == [ state |-> "pending", value |-> << >>, error |-> NoError ]
NotAClient == [ state |-> "none", value |-> << >>, error |-> NoError ]

(***************************************************************************)
(* The continuation of a function after its await, fulfilling whatever     *)
(* executeWithRetry did.                                                   *)
(***************************************************************************)
ClientOutcome_RejectionSwallowed(o, settled, value, error) ==
  [ state |-> "fulfilled", value |-> << >>, error |-> NoError ]

(***************************************************************************)
(* The continuation of a function after its await of executeWithRetry: a   *)
(* rejection is the function's own; otherwise getRepositoryName and        *)
(* listSecrets parse stdout, storeSecret and removeSecret return nothing.  *)
(***************************************************************************)
ClientOutcome(o, settled, value, error) ==
  IF settled = "rejected"
    THEN [ state |-> "rejected", value |-> << >>, error |-> error ]
  ELSE IF o = "getRepositoryName"
    THEN IF ParseRepository(value.stdout) = "SyntaxError"
           THEN [ state |-> "rejected", value |-> << >>,
                  error |-> [ text |-> "Unable to determine repository name", arg |-> Null ] ]
           ELSE [ state |-> "fulfilled", value |-> << ParseRepository(value.stdout) >>,
                  error |-> NoError ]
  ELSE IF o = "listSecrets"
    THEN [ state |-> "fulfilled", value |-> ParseListing(value.stdout), error |-> NoError ]
  ELSE [ state |-> "fulfilled", value |-> << >>, error |-> NoError ]

(***************************************************************************)
(* The secret updateSecrets reads, and what a run of it is given: the      *)
(* options, the user's answer to the prompt, the secrets listed in the     *)
(* repository, and clients whose getRepositoryName and listSecrets either  *)
(* return promises (DEFAULTS) or plain values (the mocks of the tests).    *)
(***************************************************************************)
MaxKeys == 2

SecretJson ==
  << [ key |-> "NPM_TOKEN", value |-> "my-npm-token" ],
     [ key |-> "PROJEN_GITHUB_TOKEN", value |-> "bla-bla-bla" ],
     [ key |-> "TWINE_PASSWORD", value |-> "my-twine-password" ] >>

(***************************************************************************)
(* What getSecret hands back as secret.json, the result of JSON.parse: an  *)
(* object with keys, the empty object, a string, or null.                  *)
(***************************************************************************)
SecretKinds == { "object", "empty", "string", "null" }

SecretEntries == SubSeq(SecretJson, 1, MaxKeys)

Entries(kind) == IF kind = "object" THEN SecretEntries ELSE << >>

TypeOf(kind) == IF kind = "string" THEN "string" ELSE "object"

ObjectKeys(json) == [ i \in 1..Len(json) |-> json[i].key ]

OptionRepository == "my-owner/other-repo"
UnresolvedPromise == "[object Promise]"

(***************************************************************************)
(* Secret ids, as the fields that split(':') gives.                        *)
(***************************************************************************)
PlainSecretId == << "my-secret" >>
ArnSecretId ==
  << "arn", "aws", "secretsmanager", "us-east-1", "123456789012", "secret", "my-secret" >>
ShortArnSecretId == << "arn", "aws" >>
OptionRegion == "eu-west-1"

KeyLists ==
  { << >>, << "NPM_TOKEN" >>, << "NPM_TOKEN", "PROJEN_GITHUB_TOKEN" >>, << "MISSING" >>,
    << "NPM_TOKEN", "MISSING" >> }

RequestGrid ==
  [ clients : { "DEFAULTS", "synchronous" },
    secretId : { PlainSecretId, ArnSecretId, ShortArnSecretId },
    region : { "undefined", "", OptionRegion },
    secret : SecretKinds,
    repository : { "undefined", OptionRepository },
    keysGiven : BOOLEAN,
    keys : KeyLists,
    allKeys : { "undefined", "true", "false" },
    prune : BOOLEAN,
    keep : { << >>, << "TWINE_USERNAME" >> },
    environment : { "undefined", "production" },
    confirm : BOOLEAN,
    answer : BOOLEAN,
    existing : { << >>, << "NPM_TOKEN", "TWINE_USERNAME", "BOOM_BAM" >> } ]

(***************************************************************************)
(* The requests explored: the options that decide the validation, the      *)
(* prompt and the loops in every combination; the secret's id and region,  *)
(* the kind of the secret, keep and environment one at a time.             *)
(***************************************************************************)
Deviations(q) ==
  (IF q.secretId # PlainSecretId \/ q.region # "undefined" THEN 1 ELSE 0)
  + (IF q.secret # "object" THEN 1 ELSE 0)
  + (IF q.keep # << >> THEN 1 ELSE 0)
  + (IF q.environment # "undefined" THEN 1 ELSE 0)

Requests ==
  { q \in RequestGrid : /\ ~q.keysGiven => q.keys = << >>
                        /\ ~q.confirm => q.answer
                        /\ Deviations(q) <= 1 }

NoRequest ==
  [ clients |-> "none", secretId |-> PlainSecretId, region |-> "undefined",
    secret |-> "object", repository |-> "undefined", keysGiven |-> FALSE, keys |-> << >>,
    allKeys |-> "undefined", prune |-> FALSE, keep |-> << >>,
    environment |-> "undefined", confirm |-> FALSE, answer |-> FALSE,
    existing |-> << >> ]

NoRun ==
  [ pc |-> "none", region |-> "undefined", repository |-> "undefined", keys |-> << >>,
    oldKeys |-> << >>, index |-> 0, prompts |-> 0, error |-> "" ]

(***************************************************************************)
(* The options callers pass: a grid of small policies, the empty options   *)
(* object (every default applies) and the policies of the tests (which     *)
(* leave maxRetries or deadline undefined).                                *)
(***************************************************************************)
GridOptions ==
  [ maxRetries : 0..MaxRetriesOption,
    initialBackoff : 1..MaxBackoffOption,
    maxBackoff : 1..MaxBackoffOption,
    backoffFactor : 1..MaxFactorOption,
    deadline : {Null} \cup (0..MaxDeadlineOption) ]

EmptyOptions ==
  [ maxRetries |-> Null, initialBackoff |-> Null, maxBackoff |-> Null,
    backoffFactor |-> Null, deadline |-> Null ]

TestOptions ==
  { [ maxRetries |-> Null, initialBackoff |-> 10, maxBackoff |-> 100,
      backoffFactor |-> 2, deadline |-> 500 ],
    [ maxRetries |-> Null, initialBackoff |-> 100, maxBackoff |-> 1000,
      backoffFactor |-> 2, deadline |-> 1000 ],
    [ maxRetries |-> Null, initialBackoff |-> 10, maxBackoff |-> 100,
      backoffFactor |-> 2, deadline |-> 250 ],
    [ maxRetries |-> 2, initialBackoff |-> 10, maxBackoff |-> 100,
      backoffFactor |-> 2, deadline |-> Null ] }

AllOptions == GridOptions \cup { EmptyOptions } \cup TestOptions

VARIABLES
  options,      \* the options argument of this call
  failsPlanned, \* the command's script: failures before the first success
  pc,           \* "idle", "attempting", "backoff", "resolved", "rejected"
  now,          \* Date.now()
  retryOpts, startTime, attempt, lastError, backoffTime,
  timer,        \* delay of the pending setTimeout, Null when none is pending
  returned,     \* the value the promise resolved with
  thrown,       \* the error the promise rejected with
  calls,        \* invocations of command() so far
  waits,        \* setTimeout calls so far
  lastResult,   \* what the latest command() returned
  lastStart,    \* Date.now() when the latest command() started
  lastDuration, \* how long the latest command() blocked
  lastFailAt,   \* Date.now() when the latest failure was caught
  lastWaited,   \* how long the latest backoff wait really lasted
  onlyThrottled, \* every failure so far carried the throttling text
  op,           \* the function of DEFAULTS that made this call, or NoOp
  lastSpawn,    \* the options of the latest spawnSync
  opResult,     \* how the promise of that function settled
  request,      \* the options and clients given to updateSecrets
  run,          \* where updateSecrets is, and its locals
  ops           \* the calls of gh functions that updateSecrets has made

vars ==
  << options, failsPlanned, pc, now, retryOpts, startTime, attempt, lastError,
     backoffTime, timer, returned, thrown, calls, waits, lastResult, lastStart,
     lastDuration, lastFailAt, lastWaited, onlyThrottled, op, lastSpawn, opResult, request, run, ops >>

NoUpdate == request = NoRequest /\ run = NoRun /\ ops = << >>

InitCall(optionSet, opSet) ==
  /\ options \in optionSet
  /\ op \in opSet
  /\ opResult = (IF op = NoOp THEN NotAClient ELSE Pending)
  /\ lastSpawn = [ input |-> NoInput, stdio |-> << "", "", "" >> ]
  /\ failsPlanned \in (0..MaxFails) \cup { Forever }
  /\ pc = "idle"
  /\ now \in { 0, MaxStart }
  /\ retryOpts = RetryOpts(EmptyOptions)
  /\ startTime = Null
  /\ attempt = 0
  /\ lastError = NoError
  /\ backoffTime = Null
  /\ timer = Null
  /\ returned = NoResult
  /\ thrown = NoError
  /\ calls = 0
  /\ waits = 0
  /\ lastResult = NoResult
  /\ lastStart = Null
  /\ lastDuration = 0
  /\ lastFailAt = Null
  /\ lastWaited = 0
  /\ onlyThrottled = TRUE

Init == InitCall(AllOptions, { NoOp }) /\ NoUpdate

(***************************************************************************)
(* What the n-th invocation of the scripted command may return.            *)
(***************************************************************************)
CommandResults(n) ==
  IF failsPlanned = Forever \/ n <= failsPlanned THEN Failures
  ELSE IF op = NoOp THEN Successes
  ELSE { [ y EXCEPT !.stdout = out ] : y \in Successes, out \in SuccessOutputs(op) }

IsThrottle(x) == x.status # Null /\ x.status > 0 /\ x.stderr = ThrottleText

(***************************************************************************)
(* Entry of executeWithRetry, up to the loop.                              *)
(***************************************************************************)
Enter ==
  /\ pc = "idle"
  /\ retryOpts' = RetryOpts(options)
  /\ lastError' = NoError
  /\ attempt' = 0
  /\ startTime' = now
  /\ pc' = "attempting"
  /\ UNCHANGED << options, failsPlanned, now, backoffTime, timer, returned, thrown,
                  calls, waits, lastResult, lastStart, lastDuration, lastFailAt,
                  lastWaited, onlyThrottled, op, lastSpawn, opResult, request, run, ops >>

(***************************************************************************)
(* One pass of the loop body, from command() to the return, the throw or   *)
(* the await of the backoff timer.  spawnSync blocks for d milliseconds.   *)
(***************************************************************************)
Attempt ==
  /\ pc = "attempting"
  /\ \E raw \in CommandResults(calls + 1), d \in 0..MaxDuration :
       LET x == IF op = NoOp THEN raw ELSE Captured(SpawnOptions(op), raw)
           r == assertSuccess(x)
           t == now + d
           n == attempt + 1
       IN
         /\ lastSpawn' = SpawnOptions(op)
         /\ now' = t
         /\ calls' = calls + 1
         /\ lastResult' = x
         /\ lastStart' = now
         /\ lastDuration' = d
         /\ IF ~r.threw
              THEN /\ returned' = r.value
                   /\ pc' = "resolved"
                   /\ UNCHANGED << lastError, attempt, thrown, backoffTime, timer,
                                   waits, lastFailAt, onlyThrottled >>
              ELSE /\ lastError' = CaughtError(lastError, r.error)
                   /\ attempt' = n
                   /\ lastFailAt' = t
                   /\ onlyThrottled' = (onlyThrottled /\ IsThrottle(x))
                   /\ UNCHANGED returned
                   /\ IF DeadlineReached(retryOpts, t - startTime)
                           \/ RetriesExhausted(retryOpts, n)
                        THEN /\ thrown' = CaughtError(lastError, r.error)
                             /\ pc' = "rejected"
                             /\ UNCHANGED << backoffTime, timer, waits >>
                        ELSE /\ backoffTime' = BackoffTime(retryOpts, n)
                             /\ timer' = TimerDelay(BackoffTime(retryOpts, n))
                             /\ waits' = waits + 1
                             /\ pc' = "backoff"
                             /\ UNCHANGED thrown
  /\ UNCHANGED << options, failsPlanned, retryOpts, startTime, lastWaited, op, opResult, request, run, ops >>

(***************************************************************************)
(* The loop going round without awaiting the backoff timer.                *)
(***************************************************************************)
BackoffElapsed_NotAwaited ==
  /\ pc = "backoff"
  /\ now' = now
  /\ lastWaited' = 0
  /\ timer' = Null
  /\ pc' = "attempting"
  /\ UNCHANGED << options, failsPlanned, retryOpts, startTime, attempt, lastError,
                  backoffTime, returned, thrown, calls, waits, lastResult, lastStart,
                  lastDuration, lastFailAt, onlyThrottled, op, lastSpawn, opResult, request, run, ops >>

(***************************************************************************)
(* The backoff timer fires and the loop goes round with the clock of the   *)
(* deadline started afresh.                                                *)
(***************************************************************************)
BackoffElapsed_ClockRestarted ==
  /\ pc = "backoff"
  /\ \E lag \in 0..MaxLag :
       /\ now' = now + timer + lag
       /\ lastWaited' = timer + lag
  /\ startTime' = now'
  /\ timer' = Null
  /\ pc' = "attempting"
  /\ UNCHANGED << options, failsPlanned, retryOpts, attempt, lastError,
                  backoffTime, returned, thrown, calls, waits, lastResult, lastStart,
                  lastDuration, lastFailAt, onlyThrottled, op, lastSpawn, opResult,
                  request, run, ops >>

(***************************************************************************)
(* The backoff timer fires, no earlier than its delay, and the loop goes   *)
(* round.                                                                  *)
(***************************************************************************)
BackoffElapsed ==
  /\ pc = "backoff"
  /\ \E lag \in 0..MaxLag :
       /\ now' = now + timer + lag
       /\ lastWaited' = timer + lag
  /\ timer' = Null
  /\ pc' = "attempting"
  /\ UNCHANGED << options, failsPlanned, retryOpts, startTime, attempt, lastError,
                  backoffTime, returned, thrown, calls, waits, lastResult, lastStart,
                  lastDuration, lastFailAt, onlyThrottled, op, lastSpawn, opResult, request, run, ops >>

Next == Enter \/ Attempt \/ BackoffElapsed

Spec == Init /\ [][Next]_vars

(***************************************************************************)
(* The event loop runs whatever is ready: the synchronous code of the call *)
(* runs on, and a timer that is due fires.                                 *)
(* A command that fails on every invocation is followed.                   *)
(***************************************************************************)
EternallyFailingInit == Init /\ failsPlanned = Forever

(***************************************************************************)
(* The promise of a function of DEFAULTS settles once executeWithRetry has *)
(* settled.                                                                *)
(***************************************************************************)
ClientSettle ==
  /\ op # NoOp
  /\ pc \in { "resolved", "rejected" }
  /\ opResult.state = "pending"
  /\ opResult' = ClientOutcome(op, pc, returned, thrown)
  /\ UNCHANGED << options, failsPlanned, pc, now, retryOpts, startTime, attempt,
                  lastError, backoffTime, timer, returned, thrown, calls, waits,
                  lastResult, lastStart, lastDuration, lastFailAt, lastWaited,
                  onlyThrottled, op, lastSpawn, request, run, ops >>

(***************************************************************************)
(* One call of a function of DEFAULTS; each calls executeWithRetry without *)
(* options.                                                                *)
(***************************************************************************)
ClientInit == InitCall({ EmptyOptions }, ClientOps) /\ NoUpdate

ClientNext == Next \/ ClientSettle

ClientSpec == ClientInit /\ [][ClientNext]_vars

(***************************************************************************)
(* updateSecrets.  Its calls of getRepositoryName, listSecrets, storeSecret *)
(* and removeSecret are not awaited: each call of a function of DEFAULTS   *)
(* runs its first gh invocation at once and, when that fails, leaves a     *)
(* backoff timer behind and hands back a promise.                          *)
(***************************************************************************)
(***************************************************************************)
(* What the n-th invocation of gh returns during a run of updateSecrets:   *)
(* GitHub throttles the first failsPlanned invocations.                    *)
(***************************************************************************)
GhResults(n) ==
  IF failsPlanned = Forever \/ n <= failsPlanned
    THEN { errorExit(ThrottleText) }
    ELSE { successExit }

(***************************************************************************)
(* How long one invocation of gh blocks the process during a run of        *)
(* updateSecrets.                                                          *)
(***************************************************************************)
GhDurations == { MaxDuration }

Includes(list, k) == \E i \in 1..Len(list) : list[i] = k

Max(a, b) == IF a >= b THEN a ELSE b

callVars ==
  << options, failsPlanned, pc, retryOpts, startTime, attempt, lastError, backoffTime,
     timer, returned, thrown, waits, lastResult, lastStart, lastDuration, lastFailAt,
     lastWaited, onlyThrottled, op, lastSpawn, opResult >>

(***************************************************************************)
(* The region given to getSecret, with the region of an ARN taking over.   *)
(***************************************************************************)
Region_ArnWins(q) ==
  IF Len(q.secretId) > 1 /\ q.secretId[1] = "arn"
    THEN IF Len(q.secretId) >= 4 THEN q.secretId[4] ELSE "undefined"
    ELSE q.region

(***************************************************************************)
(* Lines 72-76: the region given to getSecret.  !region holds of undefined *)
(* and of the empty string; startsWith('arn:') needs a colon after arn.    *)
(***************************************************************************)
Region(q) ==
  IF q.region \in { "undefined", "" } /\ Len(q.secretId) > 1 /\ q.secretId[1] = "arn"
    THEN IF Len(q.secretId) >= 4 THEN q.secretId[4] ELSE "undefined"
    ELSE q.region

(***************************************************************************)
(* Lines 80, 91-98: keys, with the keys of the secret pushed for allKeys.  *)
(***************************************************************************)
SelectedKeys(q) ==
  LET given == IF q.keysGiven THEN q.keys ELSE << >>
  IN IF q.allKeys = "true" THEN given \o ObjectKeys(Entries(q.secret)) ELSE given

(***************************************************************************)
(* The checks of lines 83-109 without the check of each key against the    *)
(* secret.                                                                 *)
(***************************************************************************)
ValidationError_KeysUnchecked(q) ==
  LET given == IF q.keysGiven THEN q.keys ELSE << >>
  IN IF TypeOf(q.secret) # "object" THEN "is not an object"
     ELSE IF q.allKeys = "undefined" /\ ~q.keysGiven THEN "Either all or keys must be set"
     ELSE IF q.allKeys = "true" /\ Len(given) > 0 THEN "Cannot set both all and keys"
     ELSE IF q.allKeys = "true" /\ q.secret = "null" THEN "TypeError"
     ELSE IF Len(SelectedKeys(q)) = 0 THEN "No keys to update"
     ELSE ""

(***************************************************************************)
(* The checks of lines 83-109 without the check for no keys.               *)
(***************************************************************************)
ValidationError_EmptyAllowed(q) ==
  LET given == IF q.keysGiven THEN q.keys ELSE << >>
      keys == SelectedKeys(q)
  IN IF TypeOf(q.secret) # "object" THEN "is not an object"
     ELSE IF q.allKeys = "undefined" /\ ~q.keysGiven THEN "Either all or keys must be set"
     ELSE IF q.allKeys = "true" /\ Len(given) > 0 THEN "Cannot set both all and keys"
     ELSE IF q.allKeys = "true" /\ q.secret = "null" THEN "TypeError"
     ELSE IF Len(keys) > 0 /\ q.secret = "null" THEN "TypeError"
     ELSE IF \E i \in 1..Len(keys) : ~Includes(ObjectKeys(Entries(q.secret)), keys[i])
       THEN "does not contain key"
     ELSE ""

(***************************************************************************)
(* Lines 83-109: the error updateSecrets throws before it lists the        *)
(* repository's secrets, "" when it throws none.  Object.keys(null) and    *)
(* key in null throw a TypeError.                                          *)
(***************************************************************************)
ValidationError(q) ==
  LET given == IF q.keysGiven THEN q.keys ELSE << >>
      keys == SelectedKeys(q)
  IN IF TypeOf(q.secret) # "object" THEN "is not an object"
     ELSE IF q.allKeys = "undefined" /\ ~q.keysGiven THEN "Either all or keys must be set"
     ELSE IF q.allKeys = "true" /\ Len(given) > 0 THEN "Cannot set both all and keys"
     ELSE IF q.allKeys = "true" /\ q.secret = "null" THEN "TypeError"
     ELSE IF Len(keys) = 0 THEN "No keys to update"
     ELSE IF q.secret = "null" THEN "TypeError"
     ELSE IF \E i \in 1..Len(keys) : ~Includes(ObjectKeys(Entries(q.secret)), keys[i])
       THEN "does not contain key"
     ELSE ""

(***************************************************************************)
(* Every key of the repository taken for an old key.                       *)
(***************************************************************************)
OldKeys_Unfiltered(existingKeys, keys) == existingKeys

(***************************************************************************)
(* Line 113: the keys of the repository that are not being updated.        *)
(***************************************************************************)
OldKeys(existingKeys, keys) == SelectSeq(existingKeys, LAMBDA k : ~Includes(keys, k))

(***************************************************************************)
(* The arguments gh is run with by storeSecret, listSecrets, removeSecret  *)
(* and getRepositoryName.                                                  *)
(***************************************************************************)
GhArgs(kind, repository, key) ==
  CASE kind = "storeSecret" -> << "secret", "set", "--repo", repository, key >>
    [] kind = "listSecrets" -> << "secret", "list", "--repo", repository >>
    [] kind = "removeSecret" -> << "secret", "remove", "--repo", repository, key >>
    [] OTHER -> << "repo", "view", "--json", "nameWithOwner" >>

(***************************************************************************)
(* An operation after one pass of the loop of executeWithRetry that ended  *)
(* at time t with the result raw.                                          *)
(***************************************************************************)
AfterAttempt(o, raw, t) ==
  LET opts == RetryOpts(EmptyOptions)
      r == assertSuccess(Captured(SpawnOptions(o.kind), raw))
      n == o.attempt + 1
  IN IF ~r.threw
       THEN [ o EXCEPT !.pc = "resolved", !.due = Null, !.calls = @ + 1 ]
     ELSE IF DeadlineReached(opts, t - o.startTime) \/ RetriesExhausted(opts, n)
       THEN [ o EXCEPT !.pc = "rejected", !.due = Null, !.attempt = n, !.calls = @ + 1 ]
     ELSE [ o EXCEPT !.pc = "backoff", !.attempt = n, !.calls = @ + 1,
                     !.due = t + TimerDelay(BackoffTime(opts, n)) ]

(***************************************************************************)
(* A call that carries on with the attempt count and the start time of     *)
(* the call made before it, as a loop with shared state would.             *)
(***************************************************************************)
Called_SharedState(kind, repository, key, value, raw, d) ==
  LET shared == Len(ops) > 0 /\ ops[Len(ops)].pc # "resolved"
  IN AfterAttempt([ kind |-> kind, repository |-> repository, key |-> key,
                    value |-> value, args |-> GhArgs(kind, repository, key),
                    pc |-> "attempting",
                    attempt |-> IF shared THEN ops[Len(ops)].attempt ELSE 0,
                    calls |-> 0,
                    startTime |-> IF shared THEN ops[Len(ops)].startTime ELSE now,
                    due |-> Null ],
                  raw, now + d)

(***************************************************************************)
(* A call c.<kind>(...) of a function of DEFAULTS: executeWithRetry is     *)
(* entered and runs up to its first await.                                 *)
(***************************************************************************)
Called(kind, repository, key, value, raw, d) ==
  AfterAttempt([ kind |-> kind, repository |-> repository, key |-> key, value |-> value,
                 args |-> GhArgs(kind, repository, key),
                 pc |-> "attempting", attempt |-> 0, calls |-> 0, startTime |-> now,
                 due |-> Null ],
               raw, now + d)

(***************************************************************************)
(* A call of a client that answers at once without running gh, as the      *)
(* mocks of the tests do.                                                  *)
(***************************************************************************)
Answered(kind, repository) ==
  [ kind |-> kind, repository |-> repository, key |-> "", value |-> "", args |-> << >>,
    pc |-> "resolved", attempt |-> 0, calls |-> 0, startTime |-> now, due |-> Null ]

Settled(o) == o.pc \in { "resolved", "rejected" }

Running == run.pc \in { "storing", "pruning" }

(***************************************************************************)
(* Lines 68-79: up to the await of getSecret.                              *)
(***************************************************************************)
UpdateSecretsEnter ==
  /\ run.pc = "idle"
  /\ IF request.repository # "undefined"
       THEN /\ run' = [ run EXCEPT !.pc = "getSecret", !.region = Region(request),
                                   !.repository = request.repository ]
            /\ UNCHANGED << ops, now, calls >>
     ELSE IF request.clients = "synchronous"
       THEN /\ run' = [ run EXCEPT !.pc = "getSecret", !.region = Region(request),
                                   !.repository = RepoName ]
            /\ ops' = Append(ops, Answered("getRepositoryName", ""))
            /\ UNCHANGED << now, calls >>
     ELSE \E raw \in GhResults(calls + 1), d \in GhDurations :
            /\ ops' = Append(ops, Called("getRepositoryName", "", "", "", raw, d))
            /\ now' = now + d
            /\ calls' = calls + 1
            /\ run' = [ run EXCEPT !.pc = "getSecret", !.region = Region(request),
                                   !.repository = UnresolvedPromise ]
  /\ UNCHANGED << callVars, request >>

(***************************************************************************)
(* Lines 79-133: getSecret has resolved; the checks of the options against *)
(* the secret, the listing of the repository's secrets, the log, and the   *)
(* call of the prompt when confirm is set.  The promise that listSecrets   *)
(* of DEFAULTS returns has no filter method.                               *)
(***************************************************************************)
UpdateSecretsValidate ==
  /\ run.pc = "getSecret"
  /\ IF ValidationError(request) # ""
       THEN /\ run' = [ run EXCEPT !.pc = "rejected", !.error = ValidationError(request) ]
            /\ UNCHANGED << ops, now, calls >>
     ELSE IF request.clients = "synchronous"
       THEN /\ run' = [ run EXCEPT
                          !.pc = IF request.confirm THEN "confirmPrompt" ELSE "storing",
                          !.prompts = IF request.confirm THEN @ + 1 ELSE @,
                          !.keys = SelectedKeys(request),
                          !.oldKeys = OldKeys(request.existing, SelectedKeys(request)),
                          !.index = 1 ]
            /\ ops' = Append(ops, Answered("listSecrets", run.repository))
            /\ UNCHANGED << now, calls >>
     ELSE \E raw \in GhResults(calls + 1), d \in GhDurations :
            /\ ops' = Append(ops, Called("listSecrets", run.repository, "", "", raw, d))
            /\ now' = now + d
            /\ calls' = calls + 1
            /\ run' = [ run EXCEPT !.pc = "rejected", !.keys = SelectedKeys(request),
                                   !.error = "existingKeys.filter is not a function" ]
  /\ UNCHANGED << callVars, request >>

(***************************************************************************)
(* The prompt taking any answer for a yes.                                 *)
(***************************************************************************)
UpdateSecretsConfirm_AnswerIgnored ==
  /\ run.pc = "confirmPrompt"
  /\ run' = [ run EXCEPT !.pc = "storing" ]
  /\ UNCHANGED << callVars, request, ops, now, calls >>

(***************************************************************************)
(* Lines 129-133: the prompt has been answered.                            *)
(***************************************************************************)
UpdateSecretsConfirm ==
  /\ run.pc = "confirmPrompt"
  /\ run' = [ run EXCEPT !.pc = IF request.answer THEN "storing" ELSE "resolved" ]
  /\ UNCHANGED << callVars, request, ops, now, calls >>

(***************************************************************************)
(* Lines 136-142: one round of the loop over the entries of the secret.    *)
(* Nothing else of the process runs until updateSecrets returns.           *)
(***************************************************************************)
StoreSecrets ==
  /\ run.pc = "storing"
  /\ IF run.index > Len(Entries(request.secret))
       THEN /\ run' = [ run EXCEPT !.pc = IF request.prune THEN "pruning" ELSE "resolved",
                                   !.index = 1 ]
            /\ UNCHANGED << ops, now, calls >>
     ELSE IF Len(run.keys) > 0 /\ ~Includes(run.keys, Entries(request.secret)[run.index].key)
       THEN /\ run' = [ run EXCEPT !.index = @ + 1 ]
            /\ UNCHANGED << ops, now, calls >>
     ELSE \E raw \in GhResults(calls + 1), d \in GhDurations :
            /\ ops' = Append(ops, Called("storeSecret", run.repository,
                                         Entries(request.secret)[run.index].key,
                                         Entries(request.secret)[run.index].value, raw, d))
            /\ now' = now + d
            /\ calls' = calls + 1
            /\ run' = [ run EXCEPT !.index = @ + 1 ]
  /\ UNCHANGED << callVars, request >>

(***************************************************************************)
(* Lines 145-149: one round of the loop over oldKeys.                      *)
(***************************************************************************)
PruneSecrets ==
  /\ run.pc = "pruning"
  /\ IF run.index > Len(run.oldKeys)
       THEN /\ run' = [ run EXCEPT !.pc = "resolved" ]
            /\ UNCHANGED << ops, now, calls >>
     ELSE \E raw \in GhResults(calls + 1), d \in GhDurations :
            /\ ops' = Append(ops, Called("removeSecret", run.repository,
                                         run.oldKeys[run.index], "", raw, d))
            /\ now' = now + d
            /\ calls' = calls + 1
            /\ run' = [ run EXCEPT !.index = @ + 1 ]
  /\ UNCHANGED << callVars, request >>

(***************************************************************************)
(* The loop of an operation going round without its timer having fired.    *)
(***************************************************************************)
OperationRetry_TimerNotAwaited ==
  /\ ~Running
  /\ \E i \in 1..Len(ops) :
       /\ ops[i].pc = "backoff"
       /\ \E raw \in GhResults(calls + 1), d \in GhDurations :
            /\ ops' = [ ops EXCEPT ![i] = AfterAttempt(@, raw, now + d) ]
            /\ now' = now + d
            /\ calls' = calls + 1
  /\ UNCHANGED << callVars, request, run >>

(***************************************************************************)
(* The backoff timer of one operation fires, the earliest due first, as    *)
(* soon as it is due and updateSecrets or another operation is not         *)
(* running, and the loop of that operation's executeWithRetry goes round   *)
(* once.                                                                   *)
(***************************************************************************)
OperationRetry ==
  /\ ~Running
  /\ \E i \in 1..Len(ops) :
       /\ ops[i].pc = "backoff"
       /\ \A j \in 1..Len(ops) : ops[j].pc = "backoff" => ops[i].due <= ops[j].due
       /\ \E raw \in GhResults(calls + 1), d \in GhDurations :
            LET t == Max(now, ops[i].due) + d
            IN /\ ops' = [ ops EXCEPT ![i] = AfterAttempt(@, raw, t) ]
               /\ now' = t
               /\ calls' = calls + 1
  /\ UNCHANGED << callVars, request, run >>

UpdateInit ==
  /\ InitCall({ EmptyOptions }, { NoOp })
  /\ request \in Requests
  /\ now = 0
  /\ run = [ NoRun EXCEPT !.pc = "idle" ]
  /\ ops = << >>

UpdateNext ==
  \/ UpdateSecretsEnter
  \/ UpdateSecretsValidate
  \/ UpdateSecretsConfirm
  \/ StoreSecrets
  \/ PruneSecrets
  \/ OperationRetry

UpdateSpec == UpdateInit /\ [][UpdateNext]_vars

FairSpec == EternallyFailingInit /\ [][Next]_vars /\ WF_vars(Next)

-----------------------------------------------------------------------------
(***************************************************************************)
(* Properties of executeWithRetry.                                         *)
(***************************************************************************)
HasDeadline == options.deadline # Null /\ options.deadline > 0

DeadlineInstant == startTime + options.deadline

Terminal == pc \in { "resolved", "rejected" }

IsSuccess(x) == ~x.error /\ x.signal = Null /\ x.status = 0

IsThrottledExit(x) == ~x.error /\ x.signal = Null /\ x.status > 0 /\ x.stderr = ThrottleText

IsFatalExit(x) == ~x.error /\ x.signal = Null /\ x.status > 0 /\ x.stderr # ThrottleText

IsTransportFailure(x) == x.error \/ x.signal # Null

ExitError(x) == [ text |-> "Process exited with code", arg |-> x.status ]

\* C1: once an invocation has exited non-zero without the throttling text,
\* the call is rejected with that invocation's error and the command is not
\* invoked again.
C1_FatalExitRejects ==
  (calls >= 1 /\ IsFatalExit(lastResult))
    => (pc = "rejected" /\ thrown = ExitError(lastResult))

C3_FirstSuccess ==
  /\ (calls = 1 /\ IsSuccess(lastResult))
       => (pc = "resolved" /\ waits = 0 /\ timer = Null /\ returned = lastResult)
  /\ (calls >= 1 /\ failsPlanned = 0) => (calls = 1 /\ pc = "resolved" /\ ~ENABLED Next)

C3_Witness ==
  /\ pc = "resolved"
  /\ calls = 1
  /\ waits = 0
  /\ returned = successExit

\* C4: once an invocation could not be started or was ended by a signal,
\* the call is rejected and the command is not invoked again.
C4_TransportFailureRejects ==
  (calls >= 1 /\ IsTransportFailure(lastResult)) => pc = "rejected"

\* C5: with a deadline, a throttled failure caught at elapsed >= deadline
\* ends the call with that error; one caught at elapsed < deadline starts a
\* backoff wait, after which the command is invoked again.
C5_DeadlineBoundary ==
  (HasDeadline /\ calls >= 1 /\ IsThrottledExit(lastResult))
    => IF lastFailAt - startTime >= options.deadline
         THEN pc = "rejected" /\ thrown = ExitError(lastResult) /\ ~ENABLED Next
         ELSE /\ pc \in { "backoff", "attempting" }
              /\ waits = calls
              /\ pc = "backoff" => (timer # Null /\ ENABLED BackoffElapsed /\ ~ENABLED Attempt)
              /\ pc = "attempting" => ENABLED Attempt

C5_Witness ==
  /\ HasDeadline
  /\ pc = "rejected"
  /\ IsThrottledExit(lastResult)
  /\ calls >= 2
  /\ lastFailAt - startTime = options.deadline

\* C6 as stated: no invocation starts at or after the deadline instant.
C6_NoStartAfterDeadline ==
  (HasDeadline /\ calls >= 1) => lastStart < DeadlineInstant

\* C6 amended: no invocation starts after a failure was caught at or after
\* the deadline instant; an invocation starts at or after that instant only
\* at the end of a backoff wait that began before it.
C6_NoStartAfterLateFailure ==
  HasDeadline =>
    /\ (pc = "attempting" /\ calls >= 1)
         => (lastFailAt < DeadlineInstant /\ now = lastFailAt + lastWaited)
    /\ (pc # "attempting" /\ calls >= 2) => lastStart - lastWaited < DeadlineInstant

C6_Witness ==
  /\ HasDeadline
  /\ calls >= 2
  /\ lastStart > DeadlineInstant

\* C7 as stated: against a command that is throttled on every attempt the
\* call ends with the throttling error at or after the deadline instant, no
\* later than the duration of one attempt after it.
C7_OvershootOneAttempt ==
  (HasDeadline /\ failsPlanned = Forever /\ onlyThrottled /\ pc = "rejected")
    => /\ thrown = ExitError(errorExit(ThrottleText))
       /\ now >= DeadlineInstant
       /\ now - DeadlineInstant <= lastDuration

\* C7 amended: it ends less than one backoff wait plus the duration of one
\* attempt after the deadline instant.
C7_OvershootWaitAndAttempt ==
  (HasDeadline /\ failsPlanned = Forever /\ onlyThrottled /\ pc = "rejected")
    => /\ thrown = ExitError(errorExit(ThrottleText))
       /\ now >= DeadlineInstant
       /\ now - DeadlineInstant < lastWaited + lastDuration
       /\ (calls = 1 => lastWaited = 0)

C7_Witness ==
  /\ HasDeadline
  /\ failsPlanned = Forever
  /\ onlyThrottled
  /\ pc = "rejected"
  /\ now - DeadlineInstant > lastDuration

RECURSIVE RecurrenceBackoff(_, _)
RecurrenceBackoff(o, n) ==
  IF n <= 1 THEN o.initialBackoff
  ELSE LET prev == RecurrenceBackoff(o, n - 1)
       IN IF prev * o.backoffFactor <= o.maxBackoff
            THEN prev * o.backoffFactor ELSE o.maxBackoff

RECURSIVE Power(_, _)
Power(b, e) == IF e = 0 THEN 1 ELSE Power(b, e - 1) * b

ClosedFormBackoff(o, n) ==
  IF o.initialBackoff * Power(o.backoffFactor, n - 1) <= o.maxBackoff
    THEN o.initialBackoff * Power(o.backoffFactor, n - 1) ELSE o.maxBackoff

WellFormedPolicy(o) == o.backoffFactor >= 1 /\ o.maxBackoff >= o.initialBackoff

\* C9: for a policy with backoffFactor >= 1 and maxBackoff >= initialBackoff
\* the bound of the n-th wait is min(initialBackoff * backoffFactor^(n-1),
\* maxBackoff), which is also what the recurrence started at initialBackoff
\* gives; it never exceeds maxBackoff and stays there once it has reached it.
C9_BackoffSequence ==
  /\ [](pc = "backoff"
          => /\ backoffTime <= RetryOpts(options).maxBackoff
             /\ WellFormedPolicy(RetryOpts(options))
                  => /\ backoffTime = ClosedFormBackoff(RetryOpts(options), waits)
                     /\ backoffTime = RecurrenceBackoff(RetryOpts(options), waits))
  /\ [][ ( /\ WellFormedPolicy(RetryOpts(options))
           /\ backoffTime = RetryOpts(options).maxBackoff
           /\ pc' = "backoff" )
           => backoffTime' = backoffTime ]_vars

C9_Witness ==
  /\ pc = "backoff"
  /\ options.initialBackoff = 10
  /\ options.maxBackoff = 100
  /\ options.backoffFactor = 2
  /\ waits = 6
  /\ backoffTime = 100

RaceTimeout == 7000000

C12_EventuallyRejects ==
  (failsPlanned = Forever)
    ~> (pc = "rejected" /\ (onlyThrottled => thrown = ExitError(errorExit(ThrottleText))))

C12_Witness ==
  /\ failsPlanned = Forever
  /\ onlyThrottled
  /\ pc = "rejected"
  /\ waits >= 2
  /\ thrown = ExitError(errorExit(ThrottleText))

ErrorOf(x) ==
  IF x.error THEN SpawnFailure
  ELSE IF x.signal # Null THEN [ text |-> "Process exited with signal", arg |-> x.signal ]
  ELSE [ text |-> "Process exited with code", arg |-> x.status ]

\* C13: the error a call is rejected with is the error of its latest
\* invocation, unchanged, and a call resolves only with the result of a
\* latest invocation that succeeded.
C13_RejectsWithLatestError ==
  /\ pc = "rejected"
       => (~IsSuccess(lastResult) /\ thrown = ErrorOf(lastResult) /\ thrown = lastError)
  /\ pc = "resolved" => (IsSuccess(lastResult) /\ returned = lastResult /\ thrown = NoError)

C13_Witness ==
  /\ pc = "rejected"
  /\ calls >= 3
  /\ ~onlyThrottled
  /\ lastResult = signalExit
  /\ thrown = ErrorOf(signalExit)

MessageContains(e, s) == e.text = s

\* C14: the error a call is rejected with after a non-zero exit carries the
\* exit code and the stderr text of that invocation.
C14_ErrorCarriesStderr ==
  (pc = "rejected" /\ ~IsTransportFailure(lastResult))
    => (thrown.arg = lastResult.status /\ MessageContains(thrown, lastResult.stderr))

\* C16: the attempts of a call are sequential: an invocation has returned
\* before anything else happens, and the next one starts only when the whole
\* backoff wait set after the previous failure has elapsed.
C16_SequentialAttempts ==
  /\ [] /\ calls >= 1 => (lastStart + lastDuration <= now /\ calls \in { attempt, attempt + 1 })
        /\ pc = "backoff" => (calls = waits /\ calls = attempt /\ now = lastFailAt)
        /\ (pc = "attempting" /\ calls >= 1)
             => (timer = Null /\ calls = waits /\ now >= lastFailAt + backoffTime)
        /\ (Terminal /\ calls >= 2) => lastWaited >= backoffTime
  /\ [][ calls' # calls
           => /\ calls' = calls + 1
              /\ pc = "attempting"
              /\ timer = Null
              /\ lastStart' = now
              /\ calls >= 1 => now >= lastFailAt + backoffTime ]_vars

C16_Witness ==
  /\ pc = "attempting"
  /\ calls = 2
  /\ waits = 2
  /\ now > lastFailAt + backoffTime

\* C17: an invocation that exits with status 0, was started and was not
\* ended by a signal is a success even with text on stderr: the call
\* resolves with it, without a backoff wait or another invocation.
C17_NoisySuccess ==
  (calls >= 1 /\ ~lastResult.error /\ lastResult.signal = Null
     /\ lastResult.status = 0 /\ lastResult.stderr # "")
    => (pc = "resolved" /\ returned = lastResult /\ timer = Null /\ ~ENABLED Next)

C17_Witness ==
  /\ pc = "resolved"
  /\ lastResult = noisySuccessExit
  /\ returned.stderr = "warning"
  /\ calls >= 2

ClientSettled == op # NoOp /\ opResult.state \in { "fulfilled", "rejected" }

C19_StderrPiped ==
  (op # NoOp /\ calls >= 1) => lastSpawn.stdio[3] = "pipe"

\* C20: on every attempt of every command of the client, stdin is "pipe"
\* exactly when an input is supplied, and "ignore" otherwise.
C20_StdinFollowsInput ==
  (op # NoOp /\ calls >= 1)
    => /\ lastSpawn.stdio[1] \in { "pipe", "ignore" }
       /\ lastSpawn.stdio[1] = "pipe" <=> lastSpawn.input # NoInput
       /\ lastSpawn.input # NoInput <=> op = "storeSecret"

C20_Witness ==
  /\ op = "storeSecret"
  /\ calls >= 2
  /\ lastSpawn.input = SecretValue
  /\ lastSpawn.stdio[1] = "pipe"

Mutation(o) == o.kind \in { "storeSecret", "removeSecret" }

InFlight == { i \in 1..Len(ops) : Mutation(ops[i]) /\ ~Settled(ops[i]) }

\* C15: during updateSecrets at most one store or remove operation, with
\* its retry loop, is in flight at any time.
C15_OneOperationInFlight == Cardinality(InFlight) <= 1

-----------------------------------------------------------------------------
(***************************************************************************)
(* Properties of updateSecrets.                                            *)
(***************************************************************************)
Mutations == { i \in 1..Len(ops) : Mutation(ops[i]) }

Stores == { i \in 1..Len(ops) : ops[i].kind = "storeSecret" }

Removes == { i \in 1..Len(ops) : ops[i].kind = "removeSecret" }

\* C21: storeSecret and removeSecret are called only after confirmPrompt
\* has returned true, or when confirm is false, and then confirmPrompt is
\* never called; when the user declines, updateSecrets returns and no
\* storeSecret or removeSecret call is ever made.
C21_ConfirmedBeforeUpdate ==
  /\ Mutations # {}
       => /\ run.pc \in { "storing", "pruning", "resolved" }
          /\ request.confirm => (run.prompts = 1 /\ request.answer)
  /\ ~request.confirm => run.prompts = 0
  /\ (run.prompts = 1 /\ ~request.answer /\ run.pc # "confirmPrompt")
       => (run.pc = "resolved" /\ Mutations = {})

C21_Witness ==
  /\ request.confirm
  /\ run.prompts = 1
  /\ run.pc = "resolved"
  /\ Stores # {}
  /\ Removes # {}

ValidationErrors ==
  { "is not an object", "Either all or keys must be set", "Cannot set both all and keys",
    "No keys to update", "does not contain key" }

SecretKeys == ObjectKeys(Entries(request.secret))

RequestsMissingKey ==
  request.keysGiven /\ \E i \in 1..Len(request.keys) : ~Includes(SecretKeys, request.keys[i])

Validating == run.pc \in { "idle", "getSecret" }

\* C22: when updateSecrets rejects with a validation error, no storeSecret
\* and no removeSecret call has been made; in particular a run that asks
\* for a key the secret lacks is rejected without any such call, also when
\* other keys it asks for are in the secret (of a null secret the check
\* itself throws, a TypeError).
C22_NothingUpdatedOnValidationError ==
  /\ (run.pc = "rejected" /\ run.error \in ValidationErrors) => Mutations = {}
  /\ RequestsMissingKey => Mutations = {}
  /\ (RequestsMissingKey /\ ~Validating)
       => /\ run.pc = "rejected"
          /\ run.error \in ValidationErrors \cup { "TypeError" }
          /\ request.secret # "null" => run.error \in ValidationErrors

C22_Witness ==
  /\ request.keys = << "NPM_TOKEN", "MISSING" >>
  /\ request.clients = "synchronous"
  /\ request.secret = "object"
  /\ run.pc = "rejected"
  /\ run.error = "does not contain key"
  /\ Mutations = {}

PassedValidation == \E i \in 1..Len(ops) : ops[i].kind = "listSecrets"

GivenKeys == IF request.keysGiven THEN request.keys ELSE << >>

IsJsonObject == request.secret \in { "object", "empty" }

ValidRequest ==
  /\ TypeOf(request.secret) = "object"
  /\ \/ /\ request.allKeys = "true"
        /\ GivenKeys = << >>
        /\ SecretKeys # << >>
     \/ /\ request.allKeys # "true"
        /\ GivenKeys # << >>
        /\ \A i \in 1..Len(GivenKeys) : Includes(SecretKeys, GivenKeys[i])

\* C23: updateSecrets passes validation (and goes on to list the secrets
\* of the repository) exactly when the secret is an object and either
\* allKeys is true, keys is absent or empty and the secret has a key, or
\* allKeys is not true, keys is not empty and every key listed is in the
\* secret. Otherwise it rejects: a secret that is a string is 'not an
\* object'; of an object, neither option given is 'Either all or keys must
\* be set', allKeys with keys is 'Cannot set both', no resulting key is 'No
\* keys to update', and an unknown key is 'does not contain key'.
C23_ValidationCriterion ==
  ~Validating
    => /\ PassedValidation <=> ValidRequest
       /\ ~ValidRequest => run.pc = "rejected"
       /\ (~ValidRequest /\ TypeOf(request.secret) # "object")
            => run.error = "is not an object"
       /\ (~ValidRequest /\ IsJsonObject)
            => run.error =
                 (IF request.allKeys = "undefined" /\ ~request.keysGiven
                    THEN "Either all or keys must be set"
                  ELSE IF request.allKeys = "true" /\ GivenKeys # << >>
                    THEN "Cannot set both all and keys"
                  ELSE IF GivenKeys = << >>
                    THEN "No keys to update"
                  ELSE "does not contain key")

C23_Witness ==
  /\ request.allKeys = "true"
  /\ request.keysGiven
  /\ request.keys = << >>
  /\ request.secret = "object"
  /\ PassedValidation
  /\ Stores # {}

C23_WitnessRejected ==
  /\ request.allKeys = "true"
  /\ request.secret = "empty"
  /\ run.pc = "rejected"
  /\ run.error = "No keys to update"

ClaimedKeys == IF request.allKeys = "true" THEN SecretKeys ELSE GivenKeys

ValueOf(k) ==
  LET e == Entries(request.secret)
  IN e[CHOOSE i \in 1..Len(e) : e[i].key = k].value

RunSettled == run.pc \in { "resolved", "rejected" }

ConfirmationPassed == ~request.confirm \/ (run.prompts = 1 /\ request.answer)

StoredOnceEach ==
  /\ \A n \in 1..Len(ClaimedKeys) :
       Cardinality({ i \in Stores : ops[i].key = ClaimedKeys[n] }) = 1
  /\ \A i \in Stores :
       /\ Includes(ClaimedKeys, ops[i].key)
       /\ ops[i].value = ValueOf(ops[i].key)

\* C24: on a run that passed validation and needed no confirmation or was
\* confirmed, once updateSecrets has settled storeSecret has been called
\* exactly once for each selected key, with the key's value from the
\* secret, and for no other key.
C24_EachSelectedKeyStoredOnce ==
  (RunSettled /\ PassedValidation /\ ConfirmationPassed) => StoredOnceEach

RemovedKeys == { ops[i].key : i \in Removes }

UnselectedExisting ==
  { request.existing[n] : n \in { m \in 1..Len(request.existing) :
                                    ~Includes(ClaimedKeys, request.existing[m]) } }

\* C25: with prune set, once updateSecrets has settled on a run that passed
\* validation and confirmation, removeSecret has been called exactly for
\* the keys listSecrets returns that are not selected; it is never called
\* for another key, and never when prune is unset.
C25_PruneRemovesUnselected ==
  /\ RemovedKeys \subseteq UnselectedExisting
  /\ ~request.prune => Removes = {}
  /\ (request.prune /\ RunSettled /\ PassedValidation /\ ConfirmationPassed)
       => RemovedKeys = UnselectedExisting

\* C26: removeSecret is never called for a key listed in the keep option.
C26_KeptKeysNotRemoved ==
  \A i \in Removes : ~Includes(request.keep, ops[i].key)

RepositoryCalls ==
  { i \in 1..Len(ops) : ops[i].kind \in { "storeSecret", "listSecrets", "removeSecret" } }

Carries(o, text) ==
  Includes(o.args, text) \/ text \in { o.repository, o.key, o.value }

\* C28: when an environment is specified, every storeSecret, listSecrets
\* and removeSecret call of the run carries it; when none is specified, no
\* call carries an environment.
C28_EnvironmentCarried ==
  \A i \in RepositoryCalls :
    IF request.environment # "undefined"
      THEN Carries(ops[i], request.environment)
      ELSE ~Includes(ops[i].args, "--env")

\* C27: every storeSecret, listSecrets and removeSecret call of a run is
\* given options.repository when that is specified, and otherwise the name
\* getRepositoryName returns; no call is given anything else.
C27_CallsTargetRepository ==
  \A i \in RepositoryCalls :
    ops[i].repository =
      (IF request.repository # "undefined" THEN request.repository ELSE RepoName)

IsArn(id) == Len(id) > 1 /\ id[1] = "arn"

FourthField(id) == IF Len(id) >= 4 THEN id[4] ELSE "undefined"

\* C29 as claimed: the region given to getSecret is options.region when
\* that is given; otherwise the fourth field of the secret id when the id
\* is an ARN; otherwise undefined.
C29_ExplicitRegionWins ==
  run.pc \notin { "none", "idle" }
    => run.region =
         (IF request.region # "undefined" THEN request.region
          ELSE IF IsArn(request.secretId) THEN FourthField(request.secretId)
          ELSE "undefined")

\* C29: the region given to getSecret is options.region when that is given
\* and not the empty string; otherwise the fourth field of the secret id
\* when the id is an ARN; otherwise options.region as it is (undefined or
\* empty).
C29_NonEmptyRegionWins ==
  run.pc \notin { "none", "idle" }
    => run.region =
         (IF request.region \notin { "undefined", "" } THEN request.region
          ELSE IF IsArn(request.secretId) THEN FourthField(request.secretId)
          ELSE request.region)

C29_Witness ==
  /\ run.pc = "getSecret"
  /\ request.region = OptionRegion
  /\ request.secretId = ArnSecretId
  /\ run.region = OptionRegion

-----------------------------------------------------------------------------
FailedLast == calls >= 1 /\ ~IsSuccess(lastResult)

\* C30: the deadline instant of a retry sequence, start time plus
\* deadline, is set at entry and is the same ever after: no failure,
\* backoff computation or wait changes the start time or the deadline, and
\* every failure is checked against that one instant: the call is rejected
\* at a failure exactly when the failure is caught at or after it.
C30_DeadlineInstantFixed ==
  /\ [](/\ (pc # "idle" /\ HasDeadline) => retryOpts.deadline = options.deadline
        /\ (pc # "idle" /\ calls = 0) => startTime = now
        /\ (HasDeadline /\ FailedLast)
             => (pc = "rejected" <=> lastFailAt >= DeadlineInstant))
  /\ [][ pc # "idle" => /\ startTime' = startTime
                        /\ retryOpts' = retryOpts
                        /\ options' = options ]_vars

C30_Witness ==
  /\ HasDeadline
  /\ pc = "rejected"
  /\ waits >= 2
  /\ lastWaited > 0
  /\ lastFailAt > DeadlineInstant
  /\ lastStart > startTime

-----------------------------------------------------------------------------
(***************************************************************************)
(* Further properties of executeWithRetry.                                 *)
(***************************************************************************)
NoDeadline == options.deadline = Null

\* C31: without a deadline, a command that fails on every attempt is
\* invoked exactly maxRetries + 1 times, with maxRetries backoff waits, and
\* the call is then rejected with the error of the last invocation; it is
\* never invoked more often.
C31_RetriesExhausted ==
  (NoDeadline /\ failsPlanned = Forever /\ pc # "idle")
    => /\ calls <= retryOpts.maxRetries + 1
       /\ waits <= retryOpts.maxRetries
       /\ pc = "rejected" <=> (calls = retryOpts.maxRetries + 1 /\ attempt = calls)
       /\ pc = "rejected"
            => /\ waits = retryOpts.maxRetries
               /\ thrown = ErrorOf(lastResult)
               /\ ~ENABLED Next

C31_Witness ==
  /\ NoDeadline
  /\ options.maxRetries = 2
  /\ failsPlanned = Forever
  /\ pc = "rejected"
  /\ calls = 3
  /\ waits = 2

RECURSIVE SumOfWaits(_, _)
SumOfWaits(o, k) ==
  IF k = 0 THEN 0 ELSE SumOfWaits(o, k - 1) + ClosedFormBackoff(o, k)

RECURSIVE LeastWaitsFrom(_, _)
LeastWaitsFrom(o, k) ==
  IF SumOfWaits(o, k) >= o.deadline THEN k ELSE LeastWaitsFrom(o, k + 1)

\* The attempts so far took no time and every timer fired exactly when due:
\* the time since the start of the call is the sum of the waits.
InstantaneousAndExact == now - startTime = SumOfWaits(retryOpts, waits)

DeadlineTestPolicy ==
  [ maxRetries |-> Null, initialBackoff |-> 10, maxBackoff |-> 100,
    backoffFactor |-> 2, deadline |-> 500 ]

\* C33: with a deadline, a command that fails on every attempt,
\* instantaneous attempts and exact timers, the call is rejected after
\* 1 + k invocations, k being the least number of backoff waits whose sum
\* reaches the deadline; for initialBackoff 10, maxBackoff 100,
\* backoffFactor 2 and deadline 500 that is 9 invocations.
C33_InvocationCount ==
  (HasDeadline /\ failsPlanned = Forever /\ pc = "rejected" /\ InstantaneousAndExact)
    => /\ calls = 1 + LeastWaitsFrom(retryOpts, 0)
       /\ waits = LeastWaitsFrom(retryOpts, 0)
       /\ options = DeadlineTestPolicy => calls = 9

C33_Witness ==
  /\ options = DeadlineTestPolicy
  /\ failsPlanned = Forever
  /\ pc = "rejected"
  /\ InstantaneousAndExact
  /\ now - startTime = 550
  /\ calls = 9

\* C37: with a deadline, an invocation that starts at or after the deadline
\* instant is the last of its call: the call is settled when it returns and
\* the command is not invoked again; the invocation before it started
\* before the deadline instant.
C37_OneLateInvocation ==
  (HasDeadline /\ calls >= 1 /\ lastStart >= DeadlineInstant)
    => /\ Terminal
       /\ ~ENABLED Next
       /\ calls >= 2
       /\ lastStart - lastWaited < DeadlineInstant

C37_Witness ==
  /\ HasDeadline
  /\ pc = "rejected"
  /\ calls = 3
  /\ lastStart = DeadlineInstant
  /\ lastWaited > 0

-----------------------------------------------------------------------------
(***************************************************************************)
(* Properties of the retry sequences of one process.                       *)
(***************************************************************************)
OperationStarted == Len(ops') = Len(ops) + 1

OperationStepped(i) == i \in 1..Len(ops) /\ ops'[i] # ops[i]

InBackoff(i) == i \in 1..Len(ops) /\ ops[i].pc = "backoff"

\* C34: every call of a client starts its own retry sequence, with the
\* time of the call as its start time, no failed attempt counted and the
\* initial backoff as its first wait, whatever the calls before it did; a
\* step of one sequence counts that sequence's own failure only, sets its
\* wait from its own count, ends it by its own count, and leaves every
\* other sequence as it was.
C34_SequencesShareNoState ==
  [][ LET opts == RetryOpts(EmptyOptions)
      IN /\ Len(ops') \in { Len(ops), Len(ops) + 1 }
         /\ OperationStarted
              => LET o == ops'[Len(ops')]
                 IN /\ SubSeq(ops', 1, Len(ops)) = ops
                    /\ o.startTime = now
                    /\ o.calls <= 1
                    /\ o.attempt = (IF o.pc \in { "backoff", "rejected" } THEN 1 ELSE 0)
                    /\ o.pc = "backoff" => o.due = now' + opts.initialBackoff
         /\ \A i \in 1..Len(ops) :
              OperationStepped(i)
                => /\ ops[i].pc = "backoff"
                   /\ ops'[i].startTime = ops[i].startTime
                   /\ ops'[i].calls = ops[i].calls + 1
                   /\ ops'[i].attempt
                        = (IF ops'[i].pc = "resolved" THEN ops[i].attempt
                                                     ELSE ops[i].attempt + 1)
                   /\ ops'[i].pc = "backoff"
                        => /\ ops'[i].due = now' + BackoffTime(opts, ops'[i].attempt)
                           /\ ops'[i].attempt <= opts.maxRetries
                   /\ ops'[i].pc = "rejected" => ops'[i].attempt = opts.maxRetries + 1
                   /\ \A j \in 1..Len(ops) : j # i => ops'[j] = ops[j] ]_vars

C34_Witness ==
  \E i, j \in 1..Len(ops) :
    /\ ops[i].pc = "backoff"
    /\ ops[j].pc = "backoff"
    /\ ops[i].attempt = 2
    /\ ops[j].attempt = 1
    /\ ops[i].startTime < ops[j].startTime
    /\ ops[i].due > ops[j].due

\* C35: a call whose attempt has failed returns to its caller with its
\* backoff timer pending, having taken the time of the invocation only;
\* while the timer is pending updateSecrets can go on with its next call,
\* and the sequence makes its next attempt only once the timer's delay
\* has passed.
C35_CooperativeBackoff ==
  /\ []( (Running /\ \E i \in 1..Len(ops) : InBackoff(i))
           => ENABLED (StoreSecrets \/ PruneSecrets) )
  /\ [][ /\ (OperationStarted /\ ops'[Len(ops')].pc = "backoff")
              => /\ now' = now + MaxDuration
                 /\ ops'[Len(ops')].due > now'
         /\ \A i \in 1..Len(ops) :
              OperationStepped(i)
                => /\ InBackoff(i)
                   /\ now' - MaxDuration >= ops[i].due
         /\ \A i \in 1..Len(ops) :
              (InBackoff(i) /\ now' < ops[i].due) => ops'[i] = ops[i] ]_vars

C35_Witness ==
  /\ Running
  /\ \E i, j \in 1..Len(ops) :
       /\ i < j
       /\ InBackoff(i)
       /\ ops[i].kind = "storeSecret"
       /\ ops[j].kind = "storeSecret"
       /\ ops[i].due > now
       /\ ops[j].startTime < ops[i].due
       /\ ops[j].startTime > ops[i].startTime

-----------------------------------------------------------------------------
(***************************************************************************)
(* Further properties of updateSecrets.                                    *)
(***************************************************************************)

\* C36: updateSecrets has settled only when every storeSecret and
\* removeSecret operation it started has settled, and it has resolved only
\* when every one of them has resolved.
C36_SettlesAfterOperations ==
  /\ RunSettled => \A i \in Mutations : Settled(ops[i])
  /\ run.pc = "resolved" => \A i \in Mutations : ops[i].pc = "resolved"

\* Line 80: keys is options.keys itself when the caller gave an array, so
\* what line 97 pushes to keys is pushed to the caller's array.
CallerKeys ==
  IF request.keysGiven /\ run.pc \notin { "idle", "getSecret" }
       /\ ValidationError(request) = ""
    THEN run.keys
    ELSE request.keys

\* The checks of lines 83-109 in a second call with the same options object.
SecondValidationError == ValidationError([ request EXCEPT !.keys = CallerKeys ])

\* C38: updateSecrets leaves the keys array of its options as the caller
\* gave it, and a second call with the same options object is validated
\* as the first was.
C38_OptionsUnmodified ==
  /\ CallerKeys = request.keys
  /\ RunSettled => SecondValidationError = ValidationError(request)

StoredKeys == { ops[i].key : i \in Stores }

\* C39: at every moment of a run the keys removeSecret has been called with
\* are keys that listSecrets returned and none of them is a key storeSecret
\* has been called with or a key selected for the update.
C39_RemovedNotStored ==
  /\ RemovedKeys \cap StoredKeys = { }
  /\ \A k \in RemovedKeys :
       /\ Includes(request.existing, k)
       /\ ~Includes(run.keys, k)

C39_Witness ==
  /\ run.pc = "resolved"
  /\ request.prune
  /\ "NPM_TOKEN" \in StoredKeys
  /\ Includes(request.existing, "NPM_TOKEN")
  /\ RemovedKeys = { "TWINE_USERNAME", "BOOM_BAM" }

=============================================================================
